---- MODULE Spec2Model ----
(***************************************************************************)
(* Model of the table-region detection and markdown-table validation       *)
(* pipeline: src/table_chunker.py (crop_with_padding, detect_tables,       *)
(* extract_markdown_tables, _parse_md_table_block, guess_table_type,       *)
(* stable_column_count) and the OCR button handler of src/app.py (main).   *)
(*                                                                         *)
(* A Python str is a sequence of one-character strings; the characters     *)
(* "\n" and "\t" are the line feed and the tab.                            *)
(***************************************************************************)
EXTENDS Integers, Sequences, FiniteSets, TLC

VARIABLES
    \* ---- extract_markdown_tables ----
    ppc,          \* "input" | "parsed"
    srcRows,      \* the rows a text was serialised from (<<>>: free text)
    markdown,     \* the argument of extract_markdown_tables
    tables,       \* its return value
    blockCalls,   \* the calls of _parse_md_table_block: [block, rows]
    \* ---- stable_column_count ----
    spc,          \* "build" | "done"
    sTable,       \* the argument table
    sMinRows,     \* the argument min_rows
    sResult,      \* the return value
    \* ---- guess_table_type ----
    gpc,          \* "build" | "done"
    gTable,       \* the argument table
    gResult,      \* the return value
    \* ---- crop_with_padding ----
    cpc,          \* "input" | "done"
    cImg,         \* [w, h]: img.shape
    cBbox,        \* <<x1, y1, x2, y2>>
    cPad,         \* pad
    cBounds,      \* [x1p, y1p, x2p, y2p]: the four slice bounds
    cSlice,       \* [x0, x1, y0, y1]: the pixels img[y1p:y2p, x1p:x2p] holds
    \* ---- detect_tables and the OCR handler of main ----
    engines,      \* PPStructureV3 objects constructed so far in the process
    nCalls,       \* detect_tables calls made so far
    dInput,       \* the last detect_tables call: [decodes, engineFails, results, padding]
    dOutcome,     \* "none" | "returned" | "ValueError" | "EngineError" | "EncodeError"
    dRegions,     \* the list the last call returned (<<>> if it raised)
    mRun,         \* the last run of the handler: [chunking, fileType]
    mOutcome,     \* "none" | "done" | "aborted"
    ocrCalls,     \* the payloads sent to ocr_with_mistral by the last run, in order
    extracted     \* extracted_text of the last run

parseVars  == <<ppc, srcRows, markdown, tables, blockCalls>>
stableVars == <<spc, sTable, sMinRows, sResult>>
guessVars  == <<gpc, gTable, gResult>>
cropVars   == <<cpc, cImg, cBbox, cPad, cBounds, cSlice>>
detectVars == <<engines, nCalls, dInput, dOutcome, dRegions>>
mainVars   == <<mRun, mOutcome, ocrCalls, extracted>>
vars == <<parseVars, stableVars, guessVars, cropVars, detectVars, mainVars>>

(***************************************************************************)
(* Python str methods, on sequences of characters.                         *)
(***************************************************************************)
\* str.isspace characters that occur in the modelled texts
WS == {" ", "\t", "\n"}

Max(a, b) == IF a >= b THEN a ELSE b

Min(a, b) == IF a <= b THEN a ELSE b

\* s.lstrip(): drop the leading characters that are in cs
RECURSIVE LStripSet(_, _)
LStripSet(s, cs) ==
    IF s # <<>> /\ Head(s) \in cs THEN LStripSet(Tail(s), cs) ELSE s

\* s.rstrip(): drop the trailing characters that are in cs
RECURSIVE RStripSet(_, _)
RStripSet(s, cs) ==
    IF s # <<>> /\ s[Len(s)] \in cs
    THEN RStripSet(SubSeq(s, 1, Len(s) - 1), cs)
    ELSE s

\* ln.rstrip()
RStrip(s) == RStripSet(s, WS)

\* s.strip()
Strip(s) == RStripSet(LStripSet(s, WS), WS)

\* s.strip("|")
StripPipes(s) == RStripSet(LStripSet(s, {"|"}), {"|"})

\* s.count(c)
Count(s, c) == Cardinality({i \in 1..Len(s) : s[i] = c})

\* s.startswith(c) for a one-character prefix
StartsWith(s, c) == s # <<>> /\ Head(s) = c

\* s.split(c): the fields between the occurrences of c (never empty)
RECURSIVE SplitAcc(_, _, _, _)
SplitAcc(s, c, cur, acc) ==
    IF s = <<>> THEN Append(acc, cur)
    ELSE IF Head(s) = c THEN SplitAcc(Tail(s), c, <<>>, Append(acc, cur))
    ELSE SplitAcc(Tail(s), c, Append(cur, Head(s)), acc)

Split(s, c) == SplitAcc(s, c, <<>>, <<>>)

\* s.splitlines(): the lines between line feeds; a final line feed opens no line
SplitLines(s) ==
    LET parts == Split(s, "\n")
    IN  IF parts[Len(parts)] = <<>>
        THEN SubSeq(parts, 1, Len(parts) - 1)
        ELSE parts

\* [f(x) for x in seq]
RECURSIVE Concat(_)
Concat(ss) == IF ss = <<>> THEN <<>> ELSE Head(ss) \o Concat(Tail(ss))

(***************************************************************************)
(* The separator pattern of _parse_md_table_block, given to re.match: a    *)
(* pipe, a field, one or more groups of a pipe and a field, an optional    *)
(* pipe, the end; a field is optional whitespace, an optional colon, two   *)
(* or more dashes, an optional colon, optional whitespace.  The pattern is *)
(* run as a position automaton: each operator maps the set P               *)
(* of positions the match may stand at to the set it may stand at after    *)
(* one more piece of the pattern.                                          *)
(***************************************************************************)
\* whitespace, any number
ReWsStar(s, P) ==
    {j \in 1..(Len(s) + 1) :
        \E i \in P : i <= j /\ \A k \in i..(j - 1) : s[k] \in WS}

\* an optional character c
ReOpt(s, P, c) == P \cup {p + 1 : p \in {q \in P : q <= Len(s) /\ s[q] = c}}

\* two or more dashes
ReDashes(s, P) ==
    {j \in 1..(Len(s) + 1) :
        \E i \in P : j >= i + 2 /\ \A k \in i..(j - 1) : s[k] = "-"}

\* a pipe
RePipe(s, P) == {p + 1 : p \in {q \in P : q <= Len(s) /\ s[q] = "|"}}

\* a field
ReField(s, P) ==
    ReWsStar(s, ReOpt(s, ReDashes(s, ReOpt(s, ReWsStar(s, P), ":")), ":"))

\* one or more groups of a pipe and a field
RECURSIVE ReGroupPlus(_, _, _)
ReGroupPlus(s, P, fuel) ==
    LET once == ReField(s, RePipe(s, P))
    IN  IF once = {} \/ fuel = 0 THEN once
        ELSE once \cup ReGroupPlus(s, once, fuel - 1)

\* the whole pattern, anchored at both ends
SeparatorMatch(s) ==
    LET first == ReField(s, RePipe(s, {1}))
        more  == ReGroupPlus(s, first, Len(s))
    IN  (Len(s) + 1) \in ReOpt(s, more, "|")

(***************************************************************************)
(* _parse_md_table_block and extract_markdown_tables                       *)
(***************************************************************************)
\* the cells as split, not stripped
LineCellsNoTrim(ln) == Split(StripPipes(Strip(ln)), "|")

\* [p.strip() for p in ln.strip().strip("|").split("|")]
LineCells(ln) ==
    LET parts == Split(StripPipes(Strip(ln)), "|")
    IN  [i \in 1..Len(parts) |-> Strip(parts[i])]

RECURSIVE _parse_md_table_block(_)
_parse_md_table_block(block_lines) ==
    IF block_lines = <<>> THEN <<>>
    ELSE LET ln   == Head(block_lines)
             rest == _parse_md_table_block(Tail(block_lines))
         IN  IF SeparatorMatch(Strip(ln)) THEN rest
             ELSE <<LineCells(ln)>> \o rest

\* ln.strip().startswith("|") and ln.count("|") >= 2
IsTableLine(ln) == StartsWith(Strip(ln), "|") /\ Count(ln, "|") >= 2

\* the loop of extract_markdown_tables: the blocks of consecutive table lines
RECURSIVE ScanBlocks(_, _, _)
ScanBlocks(lines, current, acc) ==
    IF lines = <<>>
    THEN IF current # <<>> THEN Append(acc, current) ELSE acc
    ELSE IF IsTableLine(Head(lines))
         THEN ScanBlocks(Tail(lines), Append(current, Head(lines)), acc)
         ELSE ScanBlocks(Tail(lines), <<>>,
                         IF current # <<>> THEN Append(acc, current) ELSE acc)

\* lines = [ln.rstrip() for ln in markdown.splitlines()]
TextLines(md) ==
    LET raw == SplitLines(md)
    IN  [i \in 1..Len(raw) |-> RStrip(raw[i])]

Blocks(md) == ScanBlocks(TextLines(md), <<>>, <<>>)

\* any(any(c.strip() for c in r) for r in t)
HasContent(t) ==
    \E i \in 1..Len(t) : \E j \in 1..Len(t[i]) : Strip(t[i][j]) # <<>>

\* t and any(...)
KeepTable(t) == t # <<>> /\ HasContent(t)

\* [t for t in ts if KeepTable(t)]
RECURSIVE FilterTables(_)
FilterTables(ts) ==
    IF ts = <<>> THEN <<>>
    ELSE IF KeepTable(Head(ts)) THEN <<Head(ts)>> \o FilterTables(Tail(ts))
    ELSE FilterTables(Tail(ts))

extract_markdown_tables(md) ==
    LET bs == Blocks(md)
    IN  FilterTables([i \in 1..Len(bs) |-> _parse_md_table_block(bs[i])])

(***************************************************************************)
(* The parser's inputs: texts of up to MaxLines lines drawn from LinePool, *)
(* and the markdown table blocks serialised from rectangular rows of up to *)
(* MaxCells cells drawn from CellPool.                                     *)
(***************************************************************************)
MaxLines == 3

MaxCells == 4

LinePool ==
    { <<"|", " ", "a", " ", "|", " ", "b", " ", "|">>,
      <<"|", "-", "-", "-", "|", "-", "-", "-", "|">>,
      <<"|", " ", ":", "-", "-", " ", "|", " ", "-", "-", ":", " ", "|">>,
      <<"|", "-", "-", "|", "-", "-">>,
      <<"|", "-", "-", "-", "|">>,
      <<"|", "-", "|", "-", "|">>,
      <<"|", " ", "a", " ", "|">>,
      <<"|", " ", " ", "|", "\t", "|">>,
      <<" ", "|", "b", "|", "|", "a", "|", " ">>,
      <<"|", "a">>,
      <<"a", " ", "b">>,
      <<>> }

CellPool ==
    { <<>>,
      <<"a">>,
      <<" ", "a">>,
      <<"b", "\t">>,
      <<"a", " ", "b">>,
      <<"-", "-">>,
      <<":", "-", "-", "-", ":">> }

\* every rectangular table of r rows and c cells a row, r * c <= MaxCells
RectTables ==
    UNION { [1..r -> [1..c -> CellPool]] :
            <<r, c>> \in {rc \in (1..MaxCells) \X (1..MaxCells) :
                            rc[1] * rc[2] <= MaxCells} }

\* "| c1 | c2 | ... |": every cell between pipes, padded by one space
SerializeRow(row) ==
    <<"|">> \o Concat([i \in 1..Len(row) |-> <<" ">> \o row[i] \o <<" ", "|">>])

\* one line a row, each ended by a line feed
SerializeAsMarkdownTableBlock(rows) ==
    Concat([i \in 1..Len(rows) |-> SerializeRow(rows[i]) \o <<"\n">>])

\* the record of one _parse_md_table_block call
CallsOf(md) ==
    LET bs == Blocks(md)
    IN  [i \in 1..Len(bs) |->
            [block |-> bs[i], rows |-> _parse_md_table_block(bs[i])]]

InitIdleParse ==
    /\ ppc = "idle" /\ srcRows = <<>> /\ markdown = <<>>
    /\ tables = <<>> /\ blockCalls = <<>>

InitIdleStable ==
    spc = "idle" /\ sTable = <<>> /\ sMinRows = 0 /\ sResult = FALSE

InitIdleGuess ==
    gpc = "idle" /\ gTable = <<>> /\ gResult = "none"

InitIdleCrop ==
    /\ cpc = "idle" /\ cImg = <<0, 0>> /\ cBbox = <<0, 0, 0, 0>> /\ cPad = 0
    /\ cBounds = <<0, 0, 0, 0>> /\ cSlice = <<0, 0, 0, 0>>

InitIdleDetect ==
    /\ engines = 0 /\ nCalls = 0 /\ dInput = <<>>
    /\ dOutcome = "none" /\ dRegions = <<>>

InitIdleMain ==
    mRun = <<>> /\ mOutcome = "none" /\ ocrCalls = <<>> /\ extracted = <<>>

\* the text to parse: empty, to be typed line by line, or a serialised table
InitParse ==
    /\ ppc = "input"
    /\ \/ srcRows = <<>> /\ markdown = <<>>
       \/ \E rows \in RectTables :
            srcRows = rows /\ markdown = SerializeAsMarkdownTableBlock(rows)
    /\ tables = <<>>
    /\ blockCalls = <<>>
    /\ InitIdleStable /\ InitIdleGuess /\ InitIdleCrop
    /\ InitIdleDetect /\ InitIdleMain

\* one more line of free text
AppendLine(ln) ==
    /\ ppc = "input"
    /\ srcRows = <<>>
    /\ Count(markdown, "\n") < MaxLines
    /\ markdown' = markdown \o ln \o <<"\n">>
    /\ UNCHANGED <<ppc, srcRows, tables, blockCalls>>
    /\ UNCHANGED <<stableVars, guessVars, cropVars, detectVars, mainVars>>

\* tables = extract_markdown_tables(markdown)
Extract ==
    /\ ppc = "input"
    /\ ppc' = "parsed"
    /\ tables' = extract_markdown_tables(markdown)
    /\ blockCalls' = CallsOf(markdown)
    /\ UNCHANGED <<srcRows, markdown>>
    /\ UNCHANGED <<stableVars, guessVars, cropVars, detectVars, mainVars>>

NextParse ==
    \/ \E ln \in LinePool : AppendLine(ln)
    \/ Extract

SpecParse == InitParse /\ [][NextParse]_vars

(***************************************************************************)
(* Claims about the parser                                                 *)
(***************************************************************************)
\* a dash cell: two or more dashes, with an optional colon on either side
DashCell(c) ==
    \E a \in {0, 1} : \E b \in {0, 1} :
        /\ Len(c) >= a + b + 2
        /\ a = 1 => c[1] = ":"
        /\ b = 1 => c[Len(c)] = ":"
        /\ \A k \in (a + 1)..(Len(c) - b) : c[k] = "-"

\* a cell with no whitespace at either end
Trimmed(c) == c = <<>> \/ (c[1] \notin WS /\ c[Len(c)] \notin WS)

\* rows that survive the parser unchanged: trimmed cells, a cell that is not
\* empty, and no row whose cells are all dash cells
CleanRows(rows) ==
    /\ \A i \in 1..Len(rows) : \A j \in 1..Len(rows[i]) : Trimmed(rows[i][j])
    /\ \E i \in 1..Len(rows) : \E j \in 1..Len(rows[i]) : rows[i][j] # <<>>
    /\ \A i \in 1..Len(rows) : \E j \in 1..Len(rows[i]) : ~DashCell(rows[i][j])

\* C1 as claimed: parsing the serialised block of any rectangular rows without
\* pipes and line breaks returns exactly one table, equal to the rows.
C1_RoundTripAnyRows ==
    (ppc = "parsed" /\ srcRows # <<>>) => tables = <<srcRows>>

\* C1 amended: the round trip holds for rows whose cells carry no whitespace
\* at either end, of which one cell is not empty, and of which no row
\* consists of dash cells only.
C1_RoundTripCleanRows ==
    (ppc = "parsed" /\ srcRows # <<>> /\ CleanRows(srcRows))
        => tables = <<srcRows>>

\* C1 witness: a parsed 2 x 2 block of clean rows that holds an empty cell
\* and a dash cell.
C1_Witness ==
    /\ ppc = "parsed"
    /\ Len(srcRows) = 2 /\ Len(srcRows[1]) = 2
    /\ CleanRows(srcRows)
    /\ srcRows[1][1] = <<>>
    /\ DashCell(srcRows[2][1])
    /\ tables = <<srcRows>>

\* a header-separator line as C2 words it: a leading pipe, then one or more
\* pipe-delimited fields, each a dash cell between optional whitespace
IsSeparatorLine(ln) ==
    LET s      == Strip(ln)
        body   == IF s = <<>> THEN <<>> ELSE Tail(s)
        inner  == IF body # <<>> /\ body[Len(body)] = "|"
                  THEN SubSeq(body, 1, Len(body) - 1) ELSE body
        fields == Split(inner, "|")
    IN  /\ StartsWith(s, "|")
        /\ \A i \in 1..Len(fields) : DashCell(Strip(fields[i]))

\* the lines of a block that are no separator lines, in order
DataLines(block) == SelectSeq(block, LAMBDA ln : ~IsSeparatorLine(ln))

\* C2 as claimed: in every block each separator line, whatever its number of
\* columns, produces no row, and every other line produces one row, in order.
C2_SeparatorsDropped ==
    \A i \in 1..Len(blockCalls) :
        LET data == DataLines(blockCalls[i].block)
        IN  blockCalls[i].rows = [k \in 1..Len(data) |-> LineCells(data[k])]

\* a block that may contribute no table: all its lines are separator lines,
\* or all the cells of its other lines are blank
BlankBlock(block) ==
    \A k \in 1..Len(block) :
        \/ IsSeparatorLine(block[k])
        \/ \A j \in 1..Len(LineCells(block[k])) : LineCells(block[k])[j] = <<>>

\* the rows of the blocks that are not blank, in the order of the blocks
RECURSIVE ContributedRows(_)
ContributedRows(calls) ==
    IF calls = <<>> THEN <<>>
    ELSE IF BlankBlock(Head(calls).block) THEN ContributedRows(Tail(calls))
    ELSE <<Head(calls).rows>> \o ContributedRows(Tail(calls))

\* C10 as claimed: every returned table has a row and a cell that is not
\* blank; a block of blank cells only, or of separator lines only, contributes
\* no table; the other blocks' tables come in the order of the blocks.
C10_NoBlankTable ==
    ppc = "parsed" =>
        /\ \A t \in 1..Len(tables) :
              /\ tables[t] # <<>>
              /\ \E i \in 1..Len(tables[t]) : \E j \in 1..Len(tables[t][i]) :
                    Strip(tables[t][i][j]) # <<>>
        /\ tables = ContributedRows(blockCalls)

(***************************************************************************)
(* stable_column_count                                                     *)
(***************************************************************************)
\* min_rows: int = 3
DefaultMinRows == 3

\* any(c.strip() for c in r)
RowHasContent(r) == \E j \in 1..Len(r) : Strip(r[j]) # <<>>

\* counts = [len(r) for r in table if any(c.strip() for c in r)]
RECURSIVE CountsOf(_)
CountsOf(table) ==
    IF table = <<>> THEN <<>>
    ELSE IF RowHasContent(Head(table))
         THEN <<Len(Head(table))>> \o CountsOf(Tail(table))
         ELSE CountsOf(Tail(table))

\* counts.count(c)
Occurrences(counts, c) == Cardinality({i \in 1..Len(counts) : counts[i] = c})

\* iteration over set(counts): a set of small non-negative ints is iterated in
\* ascending order (an int hashes to itself and the table has one slot each)
RECURSIVE SetOrder(_)
SetOrder(S) ==
    IF S = {} THEN <<>>
    ELSE LET m == CHOOSE x \in S : \A y \in S : x <= y
         IN  <<m>> \o SetOrder(S \ {m})

\* max(iterable, key=...): the first element whose key is the greatest
RECURSIVE MaxByCount(_, _, _)
MaxByCount(order, counts, best) ==
    IF order = <<>> THEN best
    ELSE IF Occurrences(counts, Head(order)) > Occurrences(counts, best)
         THEN MaxByCount(Tail(order), counts, Head(order))
         ELSE MaxByCount(Tail(order), counts, best)

\* mode = max(set(counts), key=counts.count)
ModeOf(counts) ==
    LET order == SetOrder({counts[i] : i \in 1..Len(counts)})
    IN  MaxByCount(Tail(order), counts, Head(order))

Abs(x) == IF x >= 0 THEN x ELSE -x

\* sum(1 for c in counts if abs(c - mode) <= 1)
NearMode(counts, mode) ==
    Cardinality({i \in 1..Len(counts) : Abs(counts[i] - mode) <= 1})

\* ">= 0.8" taken strictly
stable_column_count_strict(table, min_rows) ==
    IF Len(table) < min_rows THEN TRUE
    ELSE LET counts == CountsOf(table)
         IN  IF counts = <<>> THEN TRUE
             ELSE 5 * NearMode(counts, ModeOf(counts)) > 4 * Len(counts)

\* k / n >= 0.8 in floats is 5 * k >= 4 * n for the small k and n of a table:
\* the quotient of two ints is the double nearest to k / n, and 0.8 is the
\* double nearest to 4 / 5
stable_column_count(table, min_rows) ==
    IF Len(table) < min_rows THEN TRUE
    ELSE LET counts == CountsOf(table)
         IN  IF counts = <<>> THEN TRUE
             ELSE 5 * NearMode(counts, ModeOf(counts)) >= 4 * Len(counts)

\* the tables checked: up to MaxRows rows drawn from RowPool, whose rows have
\* up to MaxCols cells
MaxRows == 5

MaxCols == 3

\* a row of n cells whose first cell is "a" and whose other cells are empty
ContentRow(n) == [j \in 1..n |-> IF j = 1 THEN <<"a">> ELSE <<>>]

\* the rows with content of every length, a row of no cell, a row of blank cells
RowPool ==
    {ContentRow(n) : n \in 1..MaxCols} \cup {<<>>, << <<" ">>, <<"\t", " ">>, <<>> >>}

InitStable ==
    /\ spc = "build" /\ sTable = <<>> /\ sMinRows = 0 /\ sResult = FALSE
    /\ InitIdleParse /\ InitIdleGuess /\ InitIdleCrop
    /\ InitIdleDetect /\ InitIdleMain

\* one more row of the table
AddRow(r) ==
    /\ spc = "build"
    /\ Len(sTable) < MaxRows
    /\ sTable' = Append(sTable, r)
    /\ UNCHANGED <<spc, sMinRows, sResult>>
    /\ UNCHANGED <<parseVars, guessVars, cropVars, detectVars, mainVars>>

\* sResult = stable_column_count(sTable, min_rows)
CheckStable(min_rows) ==
    /\ spc = "build"
    /\ spc' = "done"
    /\ sMinRows' = min_rows
    /\ sResult' = stable_column_count(sTable, min_rows)
    /\ UNCHANGED sTable
    /\ UNCHANGED <<parseVars, guessVars, cropVars, detectVars, mainVars>>

NextStable ==
    \/ \E r \in RowPool : AddRow(r)
    \/ \E m \in 1..DefaultMinRows : CheckStable(m)

SpecStable == InitStable /\ [][NextStable]_vars

\* the rows of a table that have a cell that is not blank
NonEmptyRows(table) ==
    {i \in 1..Len(table) :
        \E j \in 1..Len(table[i]) :
            \E k \in 1..Len(table[i][j]) : table[i][j][k] \notin WS}

\* how many rows with content have c cells
Freq(table, c) == Cardinality({i \in NonEmptyRows(table) : Len(table[i]) = c})

\* the most frequent cell counts of the rows with content
MostFrequent(table) ==
    {c \in {Len(table[i]) : i \in NonEmptyRows(table)} :
        \A i \in NonEmptyRows(table) : Freq(table, Len(table[i])) <= Freq(table, c)}

\* how many rows with content have a cell count within 1 of m
Within1(table, m) ==
    Cardinality({i \in NonEmptyRows(table) :
        Len(table[i]) - m \in {-1, 0, 1}})

\* C3 as claimed: a table with fewer than min_rows rows with content is
\* stable, whatever its rows' cell counts and however many blank rows it has.
C3_StableBelowThreshold ==
    (spc = "done" /\ Cardinality(NonEmptyRows(sTable)) < sMinRows)
        => sResult = TRUE

\* C4: for a table with at least min_rows rows with content, the result is
\* true exactly if at least 80% of these rows have a cell count within 1 of
\* the mode, the mode being the least of the most frequent cell counts.
C4_StableIffEightyPercent ==
    (spc = "done" /\ Cardinality(NonEmptyRows(sTable)) >= sMinRows) =>
        LET S    == MostFrequent(sTable)
            mode == CHOOSE c \in S : \A d \in S : c <= d
        IN  sResult <=>
              5 * Within1(sTable, mode) >= 4 * Cardinality(NonEmptyRows(sTable))

\* C4 witness: five rows with content, exactly four of them within 1 of the
\* mode, found stable under the default min_rows.
C4_Witness ==
    /\ spc = "done" /\ sMinRows = DefaultMinRows
    /\ Cardinality(NonEmptyRows(sTable)) = 5
    /\ \E m \in MostFrequent(sTable) : Within1(sTable, m) = 4
    /\ sResult = TRUE

(***************************************************************************)
(* guess_table_type                                                        *)
(***************************************************************************)
CHEM_HEADER_TOKENS ==
    { <<"c", " ", "%">>,
      <<"c", "r", " ", "%">>,
      <<"n", "i", " ", "%">>,
      <<"m", "o", " ", "%">>,
      <<"m", "n", " ", "%">>,
      <<"s", "i", " ", "%">>,
      <<"p", " ", "%">>,
      <<"n", " ", "%">>,
      <<"c", "u", " ", "%">>,
      <<"c", "o", " ", "%">>,
      <<"t", "i", " ", "%">> }

MECH_HEADER_TOKENS ==
    { <<"r", "p">>,
      <<"r", "m">>,
      <<"a", "5">>,
      <<"h", "b">>,
      <<"r", "e">>,
      <<"y", "i", "e", "l", "d">>,
      <<"t", "e", "n", "s", "i", "l", "e">> }

UpperLetters ==
    <<"A", "B", "C", "D", "E", "F", "G", "H", "I", "J", "K", "L", "M",
      "N", "O", "P", "Q", "R", "S", "T", "U", "V", "W", "X", "Y", "Z">>

LowerLetters ==
    <<"a", "b", "c", "d", "e", "f", "g", "h", "i", "j", "k", "l", "m",
      "n", "o", "p", "q", "r", "s", "t", "u", "v", "w", "x", "y", "z">>

\* c.lower()
LowerChar(c) ==
    IF \E i \in 1..26 : UpperLetters[i] = c
    THEN LowerLetters[CHOOSE i \in 1..26 : UpperLetters[i] = c]
    ELSE c

\* s.lower()
Lower(s) == [i \in 1..Len(s) |-> LowerChar(s[i])]

\* re.sub(r"\s+", " ", s): every run of whitespace becomes one space
RECURSIVE CollapseWs(_)
CollapseWs(s) ==
    IF s = <<>> THEN <<>>
    ELSE IF Head(s) \in WS
         THEN <<" ">> \o CollapseWs(LStripSet(s, WS))
         ELSE <<Head(s)>> \o CollapseWs(Tail(s))

normalize_token(s) == CollapseWs(Lower(Strip(s)))

\* sep.join(parts)
RECURSIVE Join(_, _)
Join(sep, parts) ==
    IF parts = <<>> THEN <<>>
    ELSE IF Len(parts) = 1 THEN Head(parts)
    ELSE Head(parts) \o sep \o Join(sep, Tail(parts))

\* tok in s: tok starts at some position of s
RECURSIVE Contains(_, _)
Contains(s, tok) ==
    IF Len(s) < Len(tok) THEN FALSE
    ELSE IF SubSeq(s, 1, Len(tok)) = tok THEN TRUE
    ELSE Contains(Tail(s), tok)

\* header = " ".join(normalize_token(x) for x in table[0])
HeaderOf(row) == Join(<<" ">>, [i \in 1..Len(row) |-> normalize_token(row[i])])

\* the mechanical tokens looked up before the chemistry tokens
guess_table_type_mech_first(table) ==
    IF table = <<>> THEN "unknown"
    ELSE LET header == HeaderOf(table[1])
         IN  IF \E tok \in MECH_HEADER_TOKENS : Contains(header, tok)
                 THEN "mechanical"
             ELSE IF \E tok \in CHEM_HEADER_TOKENS : Contains(header, tok)
                 THEN "chemistry"
             ELSE "generic"

guess_table_type(table) ==
    IF table = <<>> THEN "unknown"
    ELSE LET header == HeaderOf(table[1])
         IN  IF \E tok \in CHEM_HEADER_TOKENS : Contains(header, tok)
                 THEN "chemistry"
             ELSE IF \E tok \in MECH_HEADER_TOKENS : Contains(header, tok)
                 THEN "mechanical"
             ELSE "generic"

\* the tables classified: a header row of up to MaxHeaderCells cells drawn
\* from HeaderPool, then rows drawn from DataRowPool, MaxTableRows rows in all
MaxHeaderCells == 2

MaxTableRows == 2

HeaderPool ==
    { <<"C", " ", "%">>,
      <<"M", "n", " ", "%">>,
      <<"S", "i", " ", "%">>,
      <<"R", "p", "0", ".", "2">>,
      <<"R", "m">>,
      <<"A", "5">>,
      <<"N", "a", "m", "e">>,
      <<"D", "a", "t", "e">>,
      <<" ", "C", "u", " ", "\t", " ", "%">>,
      <<"c">>,
      <<"%">>,
      <<"R", "e", " ", "C", " ", "%">>,
      <<>> }

DataRowPool ==
    { << <<"C", " ", "%">>, <<"1">> >>,
      << <<"R", "m">> >>,
      << <<"1">>, <<"2">> >> }

InitGuess ==
    /\ gpc = "build" /\ gTable = <<>> /\ gResult = "none"
    /\ InitIdleParse /\ InitIdleStable /\ InitIdleCrop
    /\ InitIdleDetect /\ InitIdleMain

\* the table gets its header row, still without cells
StartHeader ==
    /\ gpc = "build"
    /\ gTable = <<>>
    /\ gTable' = << <<>> >>
    /\ UNCHANGED <<gpc, gResult>>
    /\ UNCHANGED <<parseVars, stableVars, cropVars, detectVars, mainVars>>

\* one more cell of the header row
AddHeaderCell(c) ==
    /\ gpc = "build"
    /\ Len(gTable) = 1
    /\ Len(gTable[1]) < MaxHeaderCells
    /\ gTable' = <<Append(gTable[1], c)>>
    /\ UNCHANGED <<gpc, gResult>>
    /\ UNCHANGED <<parseVars, stableVars, cropVars, detectVars, mainVars>>

\* one more row under the header
AddDataRow(r) ==
    /\ gpc = "build"
    /\ Len(gTable) >= 1
    /\ Len(gTable) < MaxTableRows
    /\ gTable' = Append(gTable, r)
    /\ UNCHANGED <<gpc, gResult>>
    /\ UNCHANGED <<parseVars, stableVars, cropVars, detectVars, mainVars>>

\* gResult = guess_table_type(gTable)
Guess ==
    /\ gpc = "build"
    /\ gpc' = "done"
    /\ gResult' = guess_table_type(gTable)
    /\ UNCHANGED gTable
    /\ UNCHANGED <<parseVars, stableVars, cropVars, detectVars, mainVars>>

NextGuess ==
    \/ StartHeader
    \/ \E c \in HeaderPool : AddHeaderCell(c)
    \/ \E r \in DataRowPool : AddDataRow(r)
    \/ Guess

SpecGuess == InitGuess /\ [][NextGuess]_vars

\* tok occurs in s
Occurs(tok, s) ==
    \E i \in 0..(Len(s) - Len(tok)) :
        \A k \in 1..Len(tok) : s[i + k] = tok[k]

\* a token of the set occurs in the header of the row
HasToken(tokens, row) == \E tok \in tokens : Occurs(tok, HeaderOf(row))

\* C7: the result is one of the four types; unknown exactly for the table
\* without rows; otherwise chemistry exactly if a chemistry token occurs in the
\* header of row 0, mechanical exactly if none does and a mechanical token
\* does, generic otherwise; the rows after row 0 change nothing.
C7_FirstMatchWins ==
    gpc = "done" =>
        /\ gResult \in {"unknown", "chemistry", "mechanical", "generic"}
        /\ gResult = "unknown" <=> gTable = <<>>
        /\ gTable # <<>> =>
            /\ gResult = "chemistry" <=> HasToken(CHEM_HEADER_TOKENS, gTable[1])
            /\ gResult = "mechanical" <=>
                  /\ ~HasToken(CHEM_HEADER_TOKENS, gTable[1])
                  /\ HasToken(MECH_HEADER_TOKENS, gTable[1])
            /\ gResult = "generic" <=>
                  /\ ~HasToken(CHEM_HEADER_TOKENS, gTable[1])
                  /\ ~HasToken(MECH_HEADER_TOKENS, gTable[1])
            /\ gResult = guess_table_type(<<gTable[1]>>)

\* C7 witness: a header in which tokens of both sets occur, over a data row,
\* classified as chemistry.
C7_Witness ==
    /\ gpc = "done"
    /\ Len(gTable) = 2
    /\ HasToken(CHEM_HEADER_TOKENS, gTable[1])
    /\ HasToken(MECH_HEADER_TOKENS, gTable[1])
    /\ gResult = "chemistry"

(***************************************************************************)
(* crop_with_padding                                                       *)
(***************************************************************************)
\* x1p, y1p, x2p, y2p
crop_with_padding(w, h, bbox, pad) ==
    << Max(0, bbox[1] - pad), Max(0, bbox[2] - pad),
       Min(w, bbox[3] + pad), Min(h, bbox[4] + pad) >>

\* one bound of a slice of an axis of n elements: a negative bound counts from
\* the end, and the bound is then clipped to 0..n
SliceBound(a, n) == Max(0, Min(n, IF a < 0 THEN a + n ELSE a))

\* the elements a[lo:hi] holds, <<first, end>>; none if end <= first
NumpySlice(lo, hi, n) == <<SliceBound(lo, n), SliceBound(hi, n)>>

\* img[y1p:y2p, x1p:x2p]: <<x first, x end, y first, y end>>
SliceOf(w, h, b) ==
    LET xs == NumpySlice(b[1], b[3], w)
        ys == NumpySlice(b[2], b[4], h)
    IN  <<xs[1], xs[2], ys[1], ys[2]>>

SliceWidth(sl) == Max(0, sl[2] - sl[1])

SliceHeight(sl) == Max(0, sl[4] - sl[3])

\* the images are up to MaxDim pixels wide and high, the box coordinates lie
\* up to CoordSlack pixels outside of them, the padding is up to MaxPad
MaxDim == 2

CoordSlack == 2

MaxPad == 1

InitCrop ==
    /\ cpc = "input"
    /\ \E w \in 1..MaxDim : \E h \in 1..MaxDim : cImg = <<w, h>>
    /\ \E x1 \in (-CoordSlack)..(MaxDim + CoordSlack) :
       \E x2 \in x1..(MaxDim + CoordSlack) :
       \E y1 \in (-CoordSlack)..(MaxDim + CoordSlack) :
       \E y2 \in y1..(MaxDim + CoordSlack) : cBbox = <<x1, y1, x2, y2>>
    /\ cPad \in 0..MaxPad
    /\ cBounds = <<0, 0, 0, 0>> /\ cSlice = <<0, 0, 0, 0>>
    /\ InitIdleParse /\ InitIdleStable /\ InitIdleGuess
    /\ InitIdleDetect /\ InitIdleMain

\* crop = crop_with_padding(img, bbox, pad)
Crop ==
    /\ cpc = "input"
    /\ cpc' = "done"
    /\ cBounds' = crop_with_padding(cImg[1], cImg[2], cBbox, cPad)
    /\ cSlice' = SliceOf(cImg[1], cImg[2],
                         crop_with_padding(cImg[1], cImg[2], cBbox, cPad))
    /\ UNCHANGED <<cImg, cBbox, cPad>>
    /\ UNCHANGED <<parseVars, stableVars, guessVars, detectVars, mainVars>>

NextCrop == Crop

SpecCrop == InitCrop /\ [][NextCrop]_vars

\* C5 as claimed: for every box with x1 <= x2 and y1 <= y2 and every pad >= 0
\* the slice bounds satisfy 0 <= left <= right <= w and 0 <= top <= bottom <= h,
\* the crop is the padded box cut to the image, and it is at most the box
\* plus twice the pad wide and high.
C5_CropTruncatesNeverWraps ==
    cpc = "done" =>
        /\ 0 <= cBounds[1] /\ cBounds[1] <= cBounds[3] /\ cBounds[3] <= cImg[1]
        /\ 0 <= cBounds[2] /\ cBounds[2] <= cBounds[4] /\ cBounds[4] <= cImg[2]
        /\ SliceWidth(cSlice) =
              Cardinality({x \in 0..(cImg[1] - 1) :
                  cBbox[1] - cPad <= x /\ x < cBbox[3] + cPad})
        /\ SliceHeight(cSlice) =
              Cardinality({y \in 0..(cImg[2] - 1) :
                  cBbox[2] - cPad <= y /\ y < cBbox[4] + cPad})
        /\ SliceWidth(cSlice) <= cBbox[3] - cBbox[1] + 2 * cPad
        /\ SliceHeight(cSlice) <= cBbox[4] - cBbox[2] + 2 * cPad

(***************************************************************************)
(* detect_tables                                                           *)
(***************************************************************************)
\* padding: int = 30
DefaultPadding == 30

\* upscale_factor = 1.5, as the fraction UpscaleNum / UpscaleDen
UpscaleNum == 3

UpscaleDen == 2

\* upscale(crop, 1.5): the size (int(w * factor), int(h * factor))
upscale(sl) ==
    << (SliceWidth(sl) * UpscaleNum) \div UpscaleDen,
       (SliceHeight(sl) * UpscaleNum) \div UpscaleDen >>

\* cv2.resize and cv2.imencode raise on an image without pixels
RasterFails(sl) == SliceWidth(sl) = 0 \/ SliceHeight(sl) = 0

\* image_to_base64(crop): the text that stands for the pixels of the crop
image_to_base64(sl, size) == <<"png", sl, size>>

\* str(result.get("type", "")).lower() == "table"
IsTableType(type) == Lower(type) = <<"t", "a", "b", "l", "e">>

\* the loop over enumerate(results): the regions appended so far, or the
\* exception that left the loop
RECURSIVE RegionLoop(_, _, _, _, _)
RegionLoop(img, results, i, padding, acc) ==
    IF i > Len(results) THEN [outcome |-> "returned", regions |-> acc]
    ELSE IF ~IsTableType(results[i].type)
         THEN RegionLoop(img, results, i + 1, padding, acc)
    ELSE LET bounds == crop_with_padding(img[1], img[2], results[i].bbox, padding)
             crop   == SliceOf(img[1], img[2], bounds)
         IN  IF RasterFails(crop)
             THEN [outcome |-> "cv2.error", regions |-> <<>>]
             ELSE RegionLoop(img, results, i + 1, padding,
                     Append(acc, [bbox        |-> results[i].bbox,
                                  crop        |-> upscale(crop),
                                  crop_base64 |-> image_to_base64(crop, upscale(crop)),
                                  index       |-> i - 1]))

\* one call: what it returns or raises, and whether it built an engine
detect_tables(file, engineFails, padding) ==
    IF ~file.decodes
    THEN [outcome |-> "ValueError", regions |-> <<>>, built |-> 0]
    ELSE IF engineFails
    THEN [outcome |-> "EngineError", regions |-> <<>>, built |-> 1]
    ELSE [built |-> 1] @@ RegionLoop(file.img, file.layout, 1, padding, <<>>)

\* the files: an image with a layout of up to MaxRegions regions drawn from
\* RegionPool, or bytes that are no image
MaxRegions == 2

\* detect_tables calls in one process
MaxCalls == 2

ImageSize == <<100, 80>>

RegionPool ==
    { [type |-> <<"t", "a", "b", "l", "e">>, bbox |-> <<10, 10, 50, 40>>],
      [type |-> <<"T", "a", "b", "l", "e">>, bbox |-> <<60, 20, 95, 70>>],
      [type |-> <<"t", "e", "x", "t">>,      bbox |-> <<0, 0, 100, 10>>],
      [type |-> <<"t", "a", "b", "l", "e">>, bbox |-> <<20, 20, 20, 30>>],
      [type |-> <<"t", "a", "b", "l", "e">>, bbox |-> <<140, 10, 150, 20>>] }

Layouts == UNION {[1..n -> RegionPool] : n \in 0..MaxRegions}

FilePool ==
    {[decodes |-> TRUE, img |-> ImageSize, layout |-> l] : l \in Layouts}
        \cup {[decodes |-> FALSE, img |-> <<0, 0>>, layout |-> <<>>]}

InitDetect ==
    /\ InitIdleDetect
    /\ InitIdleParse /\ InitIdleStable /\ InitIdleGuess /\ InitIdleCrop
    /\ InitIdleMain

\* table_regions = detect_tables(image_bytes, padding=padding)
DetectTables(file, engineFails, padding) ==
    /\ nCalls < MaxCalls
    /\ LET det == detect_tables(file, engineFails, padding)
       IN  /\ engines' = engines + det.built
           /\ dOutcome' = det.outcome
           /\ dRegions' = det.regions
    /\ nCalls' = nCalls + 1
    /\ dInput' = [file |-> file, engineFails |-> engineFails, padding |-> padding]
    /\ UNCHANGED <<parseVars, stableVars, guessVars, cropVars, mainVars>>

NextDetect ==
    \E file \in FilePool : \E engineFails \in BOOLEAN :
        \E padding \in {0, DefaultPadding} :
            DetectTables(file, engineFails, padding)

SpecDetect == InitDetect /\ [][NextDetect]_vars

\* the table regions of a layout whose padded crop holds a pixel, in order
RECURSIVE EncodableTables(_, _, _, _)
EncodableTables(img, layout, i, padding) ==
    IF i > Len(layout) THEN <<>>
    ELSE LET b == layout[i].bbox
             keep ==
                /\ Lower(layout[i].type) = <<"t", "a", "b", "l", "e">>
                /\ \E x \in 0..(img[1] - 1) : b[1] - padding <= x /\ x < b[3] + padding
                /\ \E y \in 0..(img[2] - 1) : b[2] - padding <= y /\ y < b[4] + padding
         IN  (IF keep THEN <<[bbox |-> b, index |-> i - 1]>> ELSE <<>>)
                \o EncodableTables(img, layout, i + 1, padding)

\* C6 as claimed: a call on an image the engine analysed does not fail; a
\* table region whose crop cannot be encoded is left out, and every other
\* table region is returned, in the order of the detector.
C6_EncodingFailureSkipsRegion ==
    (dOutcome # "none" /\ dInput.file.decodes /\ ~dInput.engineFails) =>
        /\ dOutcome = "returned"
        /\ [i \in 1..Len(dRegions) |->
                [bbox |-> dRegions[i].bbox, index |-> dRegions[i].index]]
             = EncodableTables(dInput.file.img, dInput.file.layout, 1, dInput.padding)

\* C9 as claimed: however many detect_tables calls a process makes, the
\* layout model is constructed at most once.
C9_EngineBuiltOnce == engines <= 1

(***************************************************************************)
(* main: the handler of the OCR button                                     *)
(***************************************************************************)
\* what ocr_with_mistral may return: a markdown text, or the text of an error
OcrPool ==
    { <<"|", " ", "C", " ", "%", " ", "|", " ", "R", "m", " ", "|", "\n", "|", "-", "-", "-", "|", "-", "-", "-", "|", "\n", "|", " ", "1", " ", "|", " ", "2", " ", "|", "\n">>,
      <<"E", "r", "r", "e", "u", "r", ":", " ", "x">> }

\* max(md_tables, key=lambda x: len(x), default=[]): the first longest table
RECURSIVE BestTable(_, _)
BestTable(md_tables, best) ==
    IF md_tables = <<>> THEN best
    ELSE IF Len(Head(md_tables)) > Len(best)
         THEN BestTable(Tail(md_tables), Head(md_tables))
         ELSE BestTable(Tail(md_tables), best)

\* one entry of all_results
RegionResult(i, region, result) ==
    LET md_tables  == extract_markdown_tables(result)
        best_table == IF md_tables = <<>> THEN <<>>
                      ELSE BestTable(Tail(md_tables), Head(md_tables))
    IN  [index |-> i,
         text  |-> result,
         type  |-> guess_table_type(best_table),
         valid |-> stable_column_count(best_table, DefaultMinRows),
         bbox  |-> region.bbox]

\* try: table_regions = detect_tables(...) except Exception: table_regions = []
TableRegionsOf(det) == IF det.outcome = "returned" THEN det.regions ELSE <<>>

\* the region branch taken whenever detection was asked for
UseRegionsNoFallback(chunking, fileType, table_regions) ==
    chunking /\ fileType # "PDF"

\* "if use_chunking and file_type != "PDF"" and then "if table_regions"
UseRegions(chunking, fileType, table_regions) ==
    chunking /\ fileType # "PDF" /\ table_regions # <<>>

\* the payloads handed to ocr_with_mistral, in the order of the calls
OcrPayloads(byRegion, file, table_regions) ==
    IF byRegion
    THEN [i \in 1..Len(table_regions) |->
            [kind |-> "crop", data |-> table_regions[i].crop_base64]]
    ELSE <<[kind |-> "file", data |-> file]>>

\* extracted_text: the results of the regions, or the whole text
ExtractedText(byRegion, table_regions, replies) ==
    IF byRegion
    THEN [mode  |-> "tables",
          parts |-> [i \in 1..Len(table_regions) |->
                        RegionResult(i, table_regions[i], replies[i])]]
    ELSE [mode |-> "whole", text |-> replies[1]]

InitMain ==
    /\ InitIdleMain
    /\ InitIdleDetect
    /\ InitIdleParse /\ InitIdleStable /\ InitIdleGuess /\ InitIdleCrop

\* one press of the button on an uploaded file; replies are the texts the OCR
\* service returns to the calls of this run, in order
LaunchOCR(chunking, fileType, file, engineFails) ==
    /\ mOutcome = "none"
    /\ nCalls < MaxCalls
    /\ LET called   == chunking /\ fileType # "PDF"
           det      == detect_tables(file, engineFails, DefaultPadding)
           regions  == IF called THEN TableRegionsOf(det) ELSE <<>>
           byRegion == UseRegions(chunking, fileType, regions)
           payloads == OcrPayloads(byRegion, file, regions)
       IN  /\ IF called
              THEN /\ engines' = engines + det.built
                   /\ nCalls' = nCalls + 1
                   /\ dInput' = [file |-> file, engineFails |-> engineFails,
                                 padding |-> DefaultPadding]
                   /\ dOutcome' = det.outcome
                   /\ dRegions' = det.regions
              ELSE UNCHANGED detectVars
           /\ \E replies \in [1..Len(payloads) -> OcrPool] :
                /\ ocrCalls' = [i \in 1..Len(payloads) |->
                                  [payload |-> payloads[i], reply |-> replies[i]]]
                /\ extracted' = ExtractedText(byRegion, regions, replies)
    /\ mRun' = [chunking |-> chunking, fileType |-> fileType, file |-> file]
    /\ mOutcome' = "done"
    /\ UNCHANGED <<parseVars, stableVars, guessVars, cropVars>>

\* the script runs again from its top: the values of the last run are gone,
\* the process and what it has loaded stay
Rerun ==
    /\ mOutcome = "done"
    /\ mRun' = <<>> /\ mOutcome' = "none" /\ ocrCalls' = <<>> /\ extracted' = <<>>
    /\ dInput' = <<>> /\ dOutcome' = "none" /\ dRegions' = <<>>
    /\ UNCHANGED <<engines, nCalls>>
    /\ UNCHANGED <<parseVars, stableVars, guessVars, cropVars>>

NextMain ==
    \/ \E chunking \in BOOLEAN : \E fileType \in {"PDF", "Image (PNG/JPG)"} :
         \E file \in FilePool : \E engineFails \in BOOLEAN :
            LaunchOCR(chunking, fileType, file, engineFails)
    \/ Rerun

SpecMain == InitMain /\ [][NextMain]_vars

\* C8: a run in table-detection mode on an image ends; if detect_tables
\* raised or returned no region, it makes exactly one OCR call, on the whole
\* file, and the reply is the extracted text; otherwise it makes one OCR call
\* a returned region, in the order of the list, and none on the whole file.
C8_FallbackToWholeImage ==
    (mOutcome # "none" /\ mRun.chunking /\ mRun.fileType # "PDF") =>
        /\ mOutcome = "done"
        /\ IF dOutcome # "returned" \/ dRegions = <<>>
           THEN /\ Len(ocrCalls) = 1
                /\ ocrCalls[1].payload = [kind |-> "file", data |-> mRun.file]
                /\ extracted = [mode |-> "whole", text |-> ocrCalls[1].reply]
           ELSE /\ Len(ocrCalls) = Len(dRegions)
                /\ \A i \in 1..Len(ocrCalls) :
                      ocrCalls[i].payload =
                          [kind |-> "crop", data |-> dRegions[i].crop_base64]
                /\ extracted.mode = "tables"
                /\ \A i \in 1..Len(ocrCalls) :
                      extracted.parts[i].text = ocrCalls[i].reply

\* C8 witness: detection raised on a crop without pixels after the engine
\* had found a table, and the run made its one OCR call on the whole file.
C8_Witness ==
    /\ mOutcome = "done" /\ mRun.chunking /\ mRun.fileType # "PDF"
    /\ dOutcome = "cv2.error"
    /\ Len(mRun.file.layout) = 2
    /\ Len(ocrCalls) = 1
    /\ ocrCalls[1].payload.kind = "file"
    /\ extracted.mode = "whole"

====
